---------------------------- MODULE Spec2Model ----------------------------
(***************************************************************************)
(* Order matching engine (package engine): the per-symbol order book, the  *)
(* price-time matcher and the engine registry, with the reader-writer      *)
(* locks of the registry and of every book.                                *)
(*                                                                         *)
(* Order records live on the heap and are shared by pointer between the    *)
(* ladders, the id index and the calls working on them: a book's Orders    *)
(* map holds the records, the ladders hold their ids (the UUIDs, numbered  *)
(* in creation order), and the order a SubmitOrder call has created but    *)
(* not yet added to a book is a local of that call.                        *)
(*                                                                         *)
(* Every call is a sequence of steps of the calling thread.  A section the *)
(* code runs between Lock()/RLock() and the matching unlock is one step,   *)
(* taken when the lock can be had: nothing the lock protects is read or    *)
(* written by another thread in between.  Whatever a call does between two *)
(* sections, and every access it makes with no lock on the book, is a step *)
(* of its own, so other threads interleave there.  The registry's read     *)
(* lock, which CancelOrder and GetOrder hold across their whole scan, is   *)
(* state: the threads that hold it.                                        *)
(***************************************************************************)
EXTENDS Integers, Sequences, FiniteSets, TLC

\* ------------------------------------------------------------- bounds
MaxPrice == 2
MaxQty == 2
MaxOrders == 3
MaxDepth == 1
\* Orders created in the concurrent specification.
MaxConcOrders == 2
\* GetOrderBook depths in the specification of snapshots.
MaxSnapshotDepth == 2

Threads == {"t1", "t2"}
Symbols == {"AAPL", "TSLA"}
\* The symbol the calls of the specifications below name.
OneSymbol == {"AAPL"}
NoSymbol == "-"

PriceInputs == 0..MaxPrice
QtyInputs == 0..MaxQty
DepthInputs == 0..MaxDepth

\* ------------------------------------------------------ order.go types
BUY == "BUY"
SELL == "SELL"
LIMIT == "LIMIT"
MARKET == "MARKET"
ACCEPTED == "ACCEPTED"
PARTIAL_FILL == "PARTIAL_FILL"
FILLED == "FILLED"
CANCELLED == "CANCELLED"

OrderSide == {BUY, SELL}
OrderType == {LIMIT, MARKET}
OrderStatus == {ACCEPTED, PARTIAL_FILL, FILLED, CANCELLED}

\* Trade{Price, Quantity, BuyerID, SellerID}; the trade's own uuid and its
\* wall-clock timestamp are not read by any operation.
Trade(price, qty, buyer, seller) ==
    [Price |-> price, Quantity |-> qty, BuyerID |-> buyer, SellerID |-> seller]

PriceLevel(price, ids) == [Price |-> price, Orders |-> ids]

\* Mutant of min: the first argument.
minFirst(a, b) == a

min(a, b) == IF a < b THEN a ELSE b

\* ------------------------------------------------------------ orderbook
\* OrderBook{Symbol, Bids, Asks, Orders}: a ladder is a sequence of price
\* levels, a level's queue a sequence of order ids, and Orders maps an id to
\* the Order record that the queues point to.
NewOrderBook(symbol) ==
    [Symbol |-> symbol, Bids |-> << >>, Asks |-> << >>, Orders |-> << >>]

\* NewOrder.  Timestamp is time.Now() as NewOrder reads it: a later call reads
\* a later time, and the number of the order stands for the reading.
NewOrder(id, symbol, side, orderType, price, quantity) ==
    [ID |-> id, Symbol |-> symbol, Side |-> side, Type |-> orderType,
     Price |-> price, Quantity |-> quantity, FilledQuantity |-> 0,
     Status |-> ACCEPTED, Timestamp |-> id]

\* sort.Slice(levels, less): insertion of each level before the first one it
\* is `less` than.  Level prices are distinct whenever the code sorts (a level
\* is only created when none has the price), so the unstable sort has one result.
RECURSIVE SortInsert(_, _, _)
SortInsert(sorted, level, desc) ==
    IF sorted = << >> THEN << level >>
    ELSE IF (IF desc THEN level.Price > Head(sorted).Price
                     ELSE level.Price < Head(sorted).Price)
         THEN << level >> \o sorted
         ELSE << Head(sorted) >> \o SortInsert(Tail(sorted), level, desc)

RECURSIVE SortLevels(_, _)
SortLevels(levels, desc) ==
    IF levels = << >> THEN << >>
    ELSE SortInsert(SortLevels(Tail(levels), desc), Head(levels), desc)

\* Index of the first level whose price is p, 0 when none.
FindLevel(levels, p) ==
    IF \E i \in 1..Len(levels) : levels[i].Price = p
    THEN CHOOSE i \in 1..Len(levels) :
            /\ levels[i].Price = p
            /\ \A j \in 1..(i - 1) : levels[j].Price # p
    ELSE 0

\* Mutant of addToBids: a new level is created whether or not one has the price.
addToBidsNewLevel(bids, order) ==
    SortLevels(Append(bids, PriceLevel(order.Price, << order.ID >>)), TRUE)

addToBids(bids, order) ==
    LET i == FindLevel(bids, order.Price) IN
    IF i # 0 THEN [bids EXCEPT ![i].Orders = Append(@, order.ID)]
    ELSE SortLevels(Append(bids, PriceLevel(order.Price, << order.ID >>)), TRUE)

\* Mutant of addToAsks: the order joins its level at the head of the queue.
addToAsksAtHead(asks, order) ==
    LET i == FindLevel(asks, order.Price) IN
    IF i # 0 THEN [asks EXCEPT ![i].Orders = << order.ID >> \o @]
    ELSE SortLevels(Append(asks, PriceLevel(order.Price, << order.ID >>)), FALSE)

\* Mutant of addToAsks: a new level is sorted in with the bids' comparison.
addToAsksDescending(asks, order) ==
    LET i == FindLevel(asks, order.Price) IN
    IF i # 0 THEN [asks EXCEPT ![i].Orders = Append(@, order.ID)]
    ELSE SortLevels(Append(asks, PriceLevel(order.Price, << order.ID >>)), TRUE)

addToAsks(asks, order) ==
    LET i == FindLevel(asks, order.Price) IN
    IF i # 0 THEN [asks EXCEPT ![i].Orders = Append(@, order.ID)]
    ELSE SortLevels(Append(asks, PriceLevel(order.Price, << order.ID >>)), FALSE)

\* m with key k set to v (a Go map assignment).
MapPut(m, k, v) == [x \in DOMAIN m \cup {k} |-> IF x = k THEN v ELSE m[x]]

\* Mutant of AddOrderBody: every order is added to the bids.
AddOrderBodyAllBids(book, order) ==
    [book EXCEPT !.Orders = MapPut(@, order.ID, order),
                 !.Bids = addToBids(@, order)]

\* AddOrder's body: register in the id index, then add to the order's side.
AddOrderBody(book, order) ==
    IF order.Side = BUY
    THEN [book EXCEPT !.Orders = MapPut(@, order.ID, order),
                      !.Bids = addToBids(@, order)]
    ELSE [book EXCEPT !.Orders = MapPut(@, order.ID, order),
                      !.Asks = addToAsks(@, order)]

\* s without its first occurrence of id.
RemoveFirst(s, id) ==
    IF \E j \in 1..Len(s) : s[j] = id
    THEN LET j == CHOOSE k \in 1..Len(s) :
                      s[k] = id /\ \A m \in 1..(k - 1) : s[m] # id
         IN SubSeq(s, 1, j - 1) \o SubSeq(s, j + 1, Len(s))
    ELSE s

DropAt(s, i) == SubSeq(s, 1, i - 1) \o SubSeq(s, i + 1, Len(s))

\* Mutant of removeFromLevels: a level left empty stays in the ladder.
removeFromLevelsKeepEmpty(levels, order) ==
    LET i == FindLevel(levels, order.Price) IN
    IF i = 0 THEN levels
    ELSE [levels EXCEPT ![i].Orders = RemoveFirst(@, order.ID)]

\* removeFromBids / removeFromAsks: the first level with the order's price
\* loses the order; the level goes when it is left empty.
removeFromLevels(levels, order) ==
    LET i == FindLevel(levels, order.Price) IN
    IF i = 0 THEN levels
    ELSE LET q == RemoveFirst(levels[i].Orders, order.ID) IN
         IF Len(q) = 0 THEN DropAt(levels, i)
         ELSE [levels EXCEPT ![i].Orders = q]

removeFromBids(bids, order) == removeFromLevels(bids, order)

removeFromAsks(asks, order) == removeFromLevels(asks, order)

\* Mutant of RemoveOrderBody: the order is deleted from the id index as well.
RemoveOrderBodyDeleting(book, order) ==
    LET b == IF order.Side = BUY
             THEN [book EXCEPT !.Bids = removeFromBids(@, order)]
             ELSE [book EXCEPT !.Asks = removeFromAsks(@, order)]
    IN [b EXCEPT !.Orders = [id \in DOMAIN book.Orders \ {order.ID} |-> book.Orders[id]]]

\* RemoveOrder's body for an order that is in the index.
RemoveOrderBody(book, order) ==
    IF order.Side = BUY
    THEN [book EXCEPT !.Bids = removeFromBids(@, order)]
    ELSE [book EXCEPT !.Asks = removeFromAsks(@, order)]

\* GetBestBid, GetBestAsk: the price of the first level, 0 on an empty ladder.
GetBestBid(book) == IF Len(book.Bids) = 0 THEN 0 ELSE book.Bids[1].Price

GetBestAsk(book) == IF Len(book.Asks) = 0 THEN 0 ELSE book.Asks[1].Price

\* -------------------------------------------------------------- matcher
\* Inner loop of matchBuyOrder over one level's queue q; ords is book.Orders,
\* the records the queue points to, and buyOrder the incoming order.  The head
\* sell order trades min(remaining, remaining) at its own price and leaves the
\* queue once it is filled.
\* Mutant of matchBuyLevel: the trade is priced at the incoming order's price.
RECURSIVE matchBuyLevelAtBuyPrice(_, _, _, _)
matchBuyLevelAtBuyPrice(q, ords, buyOrder, trades) ==
    IF Len(q) > 0 /\ buyOrder.FilledQuantity < buyOrder.Quantity
    THEN LET sellOrder == ords[q[1]]
             remainingBuy == buyOrder.Quantity - buyOrder.FilledQuantity
             remainingSell == sellOrder.Quantity - sellOrder.FilledQuantity
             tradeQty == min(remainingBuy, remainingSell)
             trade == Trade(buyOrder.Price, tradeQty, buyOrder.ID, sellOrder.ID)
             filled == sellOrder.FilledQuantity + tradeQty
             full == filled = sellOrder.Quantity
         IN matchBuyLevelAtBuyPrice(
                IF full THEN Tail(q) ELSE q,
                [ords EXCEPT ![q[1]].FilledQuantity = filled,
                             ![q[1]].Status = IF full THEN FILLED ELSE PARTIAL_FILL],
                [buyOrder EXCEPT !.FilledQuantity = @ + tradeQty],
                Append(trades, trade))
    ELSE [q |-> q, orders |-> ords, order |-> buyOrder, trades |-> trades]

RECURSIVE matchBuyLevel(_, _, _, _)
matchBuyLevel(q, ords, buyOrder, trades) ==
    IF Len(q) > 0 /\ buyOrder.FilledQuantity < buyOrder.Quantity
    THEN LET sellOrder == ords[q[1]]
             remainingBuy == buyOrder.Quantity - buyOrder.FilledQuantity
             remainingSell == sellOrder.Quantity - sellOrder.FilledQuantity
             tradeQty == min(remainingBuy, remainingSell)
             trade == Trade(sellOrder.Price, tradeQty, buyOrder.ID, sellOrder.ID)
             filled == sellOrder.FilledQuantity + tradeQty
             full == filled = sellOrder.Quantity
         IN matchBuyLevel(
                IF full THEN Tail(q) ELSE q,
                [ords EXCEPT ![q[1]].FilledQuantity = filled,
                             ![q[1]].Status = IF full THEN FILLED ELSE PARTIAL_FILL],
                [buyOrder EXCEPT !.FilledQuantity = @ + tradeQty],
                Append(trades, trade))
    ELSE [q |-> q, orders |-> ords, order |-> buyOrder, trades |-> trades]

\* Mutant of matchBuyLoop: the best ask is matched whatever its price.
RECURSIVE matchBuyLoopAnyPrice(_, _, _, _)
matchBuyLoopAnyPrice(asks, ords, buyOrder, trades) ==
    IF Len(asks) > 0 /\ buyOrder.FilledQuantity < buyOrder.Quantity
    THEN LET r == matchBuyLevel(asks[1].Orders, ords, buyOrder, trades) IN
         matchBuyLoopAnyPrice(IF Len(r.q) = 0 THEN Tail(asks)
                              ELSE [asks EXCEPT ![1].Orders = r.q],
                              r.orders, r.order, r.trades)
    ELSE [levels |-> asks, orders |-> ords, order |-> buyOrder, trades |-> trades]

RECURSIVE matchBuyLoop(_, _, _, _)
matchBuyLoop(asks, ords, buyOrder, trades) ==
    IF Len(asks) > 0 /\ buyOrder.FilledQuantity < buyOrder.Quantity
    THEN LET bestAsk == asks[1] IN
         IF buyOrder.Type = LIMIT /\ buyOrder.Price < bestAsk.Price
         THEN [levels |-> asks, orders |-> ords, order |-> buyOrder, trades |-> trades]
         ELSE LET r == matchBuyLevel(bestAsk.Orders, ords, buyOrder, trades) IN
              matchBuyLoop(IF Len(r.q) = 0 THEN Tail(asks)
                           ELSE [asks EXCEPT ![1].Orders = r.q],
                           r.orders, r.order, r.trades)
    ELSE [levels |-> asks, orders |-> ords, order |-> buyOrder, trades |-> trades]

matchBuyOrder(book, buyOrder) ==
    LET r == matchBuyLoop(book.Asks, book.Orders, buyOrder, << >>) IN
    [book |-> [book EXCEPT !.Asks = r.levels, !.Orders = r.orders],
     order |-> r.order, trades |-> r.trades]

\* Mutant of matchSellLevel: the trade names the incoming sell order as buyer.
RECURSIVE matchSellLevelSwapped(_, _, _, _)
matchSellLevelSwapped(q, ords, sellOrder, trades) ==
    IF Len(q) > 0 /\ sellOrder.FilledQuantity < sellOrder.Quantity
    THEN LET buyOrder == ords[q[1]]
             remainingSell == sellOrder.Quantity - sellOrder.FilledQuantity
             remainingBuy == buyOrder.Quantity - buyOrder.FilledQuantity
             tradeQty == min(remainingSell, remainingBuy)
             trade == Trade(buyOrder.Price, tradeQty, sellOrder.ID, buyOrder.ID)
             filled == buyOrder.FilledQuantity + tradeQty
             full == filled = buyOrder.Quantity
         IN matchSellLevelSwapped(
                IF full THEN Tail(q) ELSE q,
                [ords EXCEPT ![q[1]].FilledQuantity = filled,
                             ![q[1]].Status = IF full THEN FILLED ELSE PARTIAL_FILL],
                [sellOrder EXCEPT !.FilledQuantity = @ + tradeQty],
                Append(trades, trade))
    ELSE [q |-> q, orders |-> ords, order |-> sellOrder, trades |-> trades]

RECURSIVE matchSellLevel(_, _, _, _)
matchSellLevel(q, ords, sellOrder, trades) ==
    IF Len(q) > 0 /\ sellOrder.FilledQuantity < sellOrder.Quantity
    THEN LET buyOrder == ords[q[1]]
             remainingSell == sellOrder.Quantity - sellOrder.FilledQuantity
             remainingBuy == buyOrder.Quantity - buyOrder.FilledQuantity
             tradeQty == min(remainingSell, remainingBuy)
             trade == Trade(buyOrder.Price, tradeQty, buyOrder.ID, sellOrder.ID)
             filled == buyOrder.FilledQuantity + tradeQty
             full == filled = buyOrder.Quantity
         IN matchSellLevel(
                IF full THEN Tail(q) ELSE q,
                [ords EXCEPT ![q[1]].FilledQuantity = filled,
                             ![q[1]].Status = IF full THEN FILLED ELSE PARTIAL_FILL],
                [sellOrder EXCEPT !.FilledQuantity = @ + tradeQty],
                Append(trades, trade))
    ELSE [q |-> q, orders |-> ords, order |-> sellOrder, trades |-> trades]

RECURSIVE matchSellLoop(_, _, _, _)
matchSellLoop(bids, ords, sellOrder, trades) ==
    IF Len(bids) > 0 /\ sellOrder.FilledQuantity < sellOrder.Quantity
    THEN LET bestBid == bids[1] IN
         IF sellOrder.Type = LIMIT /\ sellOrder.Price > bestBid.Price
         THEN [levels |-> bids, orders |-> ords, order |-> sellOrder, trades |-> trades]
         ELSE LET r == matchSellLevel(bestBid.Orders, ords, sellOrder, trades) IN
              matchSellLoop(IF Len(r.q) = 0 THEN Tail(bids)
                            ELSE [bids EXCEPT ![1].Orders = r.q],
                            r.orders, r.order, r.trades)
    ELSE [levels |-> bids, orders |-> ords, order |-> sellOrder, trades |-> trades]

matchSellOrder(book, sellOrder) ==
    LET r == matchSellLoop(book.Bids, book.Orders, sellOrder, << >>) IN
    [book |-> [book EXCEPT !.Bids = r.levels, !.Orders = r.orders],
     order |-> r.order, trades |-> r.trades]

\* Mutant of matchLimitOrder: a sell order is matched as a buy order is.
matchLimitOrderAsBuy(book, order) == matchBuyOrder(book, order)

\* matchLimitOrder's body (run under the book's exclusive lock).
matchLimitOrder(book, order) ==
    IF order.Side = BUY THEN matchBuyOrder(book, order)
    ELSE matchSellOrder(book, order)

RECURSIVE SumRemaining(_, _)
SumRemaining(q, ords) ==
    IF q = << >> THEN 0
    ELSE ords[Head(q)].Quantity - ords[Head(q)].FilledQuantity
         + SumRemaining(Tail(q), ords)

\* Sum of quantity - filled over every order of every level of one ladder.
RECURSIVE availableLiquidity(_, _)
availableLiquidity(levels, ords) ==
    IF levels = << >> THEN 0
    ELSE SumRemaining(Head(levels).Orders, ords)
         + availableLiquidity(Tail(levels), ords)

\* Mutant of InsufficientLiquidity: the liquidity of the order's own side is summed.
InsufficientLiquidityOwnSide(book, order) ==
    availableLiquidity(IF order.Side = BUY THEN book.Bids ELSE book.Asks,
                       book.Orders) < order.Quantity

InsufficientLiquidity(book, order) ==
    availableLiquidity(IF order.Side = BUY THEN book.Asks ELSE book.Bids,
                       book.Orders) < order.Quantity

\* Mutant of matchMarketOrder: the match runs first, and the error is returned
\* after it when the order is not filled.
matchMarketOrderNoPrecheck(book, order) ==
    LET r == IF order.Side = BUY THEN matchBuyOrder(book, order)
             ELSE matchSellOrder(book, order)
    IN [err |-> r.order.FilledQuantity < order.Quantity,
        book |-> r.book, order |-> r.order, trades |-> r.trades]

\* matchMarketOrder's body (run under the book's exclusive lock): err is TRUE
\* on the insufficient-liquidity return, which comes before any match.
matchMarketOrder(book, order) ==
    IF InsufficientLiquidity(book, order)
    THEN [err |-> TRUE, book |-> book, order |-> order, trades |-> << >>]
    ELSE LET r == IF order.Side = BUY THEN matchBuyOrder(book, order)
                  ELSE matchSellOrder(book, order)
         IN [err |-> FALSE, book |-> r.book, order |-> r.order, trades |-> r.trades]

\* matchOrder: the market or the limit path.
matchOrder(book, order) ==
    IF order.Type = MARKET THEN matchMarketOrder(book, order)
    ELSE LET r == matchLimitOrder(book, order) IN
         [err |-> FALSE, book |-> r.book, order |-> r.order, trades |-> r.trades]

\* ---------------------------------------------------------------- state
VARIABLES
    books,      \* me.books: symbol -> OrderBook (Bids, Asks, Orders), created lazily
    nextId,     \* the number of the next order NewOrder creates
    meReaders,  \* the threads that hold me.mu.RLock()
    pc,         \* thread -> its position in the call it runs ("idle": in none)
    call,       \* thread -> the arguments of the call it runs
    loc,        \* thread -> the call's locals: its order, its book, books to scan
    res,        \* thread -> the result of its call (what its last call returned)
    ledger,     \* the clients' running totals: quantity submitted, quantity traded
    mu          \* me.mu and every book.mu as sync.RWMutex values

vars == << books, nextId, meReaders, pc, call, loc, res, ledger, mu >>

NoCall == [op |-> "none", id |-> 0, symbol |-> NoSymbol, depth |-> 0]

NoOrder == NewOrder(0, NoSymbol, BUY, LIMIT, 0, 0)

NoLoc == [order |-> NoOrder, book |-> NoSymbol, todo |-> {}]

\* A call's result: err ("" when it returned no error), the OrderResult fields
\* of SubmitOrder, the status read through the pointer GetOrder returns, the
\* ladders of GetOrderBook's snapshot.  `order` is not returned: it records
\* the order as SubmitOrder's local held it when the call returned.
NoResult == [op |-> "none", err |-> "", OrderID |-> 0, Status |-> "",
             FilledQuantity |-> 0, RemainingQuantity |-> 0, Trades |-> << >>,
             Bids |-> << >>, Asks |-> << >>, order |-> NoOrder]

\* The totals the clients keep of what they submit and of the trades their
\* results return (the accounting of a concurrent test); no totals are kept
\* while `on` is FALSE.
NoLedger == [on |-> FALSE, submitted |-> 0, traded |-> 0]

\* A sync.RWMutex: w the thread that holds Lock, r the threads that hold
\* RLock, q, a and rq the threads whose Lock or RLock call waits.  No lock is
\* held from one step to the next where a whole locked section is one step,
\* and mu stays as it starts; the specification of the locks takes every lock
\* in steps.
Unlocked == [w |-> {}, a |-> {}, r |-> {}, q |-> {}, rq |-> {}]

NoLocks == [me |-> Unlocked, book |-> [s \in Symbols |-> Unlocked]]

RECURSIVE TotalQuantity(_)
TotalQuantity(trades) ==
    IF trades = << >> THEN 0
    ELSE Head(trades).Quantity + TotalQuantity(Tail(trades))

Account(submitted, traded) ==
    ledger' = IF ledger.on
              THEN [ledger EXCEPT !.submitted = @ + submitted, !.traded = @ + traded]
              ELSE ledger

\* A call's error return.
Failure(op, err) == [NoResult EXCEPT !.op = op, !.err = err]

Init ==
    /\ books = << >>
    /\ nextId = 1
    /\ meReaders = {}
    /\ pc = [t \in Threads |-> "idle"]
    /\ call = [t \in Threads |-> NoCall]
    /\ loc = [t \in Threads |-> NoLoc]
    /\ res = [t \in Threads |-> NoResult]
    /\ ledger = NoLedger
    /\ mu = NoLocks

\* The call of thread t returns r.
Return(t, r) ==
    /\ pc' = [pc EXCEPT ![t] = "idle"]
    /\ call' = [call EXCEPT ![t] = NoCall]
    /\ loc' = [loc EXCEPT ![t] = NoLoc]
    /\ res' = [res EXCEPT ![t] = r]

Goto(t, label) == pc' = [pc EXCEPT ![t] = label]

\* me.mu.Lock() waits for the readers to leave.  (No thread holds me.mu
\* exclusively, or any book.mu, from one step to the next.)
CanLockRegistry == meReaders = {}

\* Mutant of GetOrCreateBook: a new book replaces the books the map holds.
GetOrCreateBookFresh(bks, symbol) ==
    IF symbol \in DOMAIN bks THEN bks
    ELSE MapPut(<< >>, symbol, NewOrderBook(symbol))

\* GetOrCreateBook, under me.mu.Lock().
GetOrCreateBook(bks, symbol) ==
    IF symbol \in DOMAIN bks THEN bks
    ELSE MapPut(bks, symbol, NewOrderBook(symbol))

\* ---------------------------------------------------------- SubmitOrder
\* Validation: quantity <= 0, or a LIMIT with price <= 0, is an error return.
\* Mutant of InvalidQuantity: a quantity of zero passes.
InvalidQuantityNegative(quantity) == quantity < 0

InvalidQuantity(quantity) == quantity <= 0

InvalidPrice(orderType, price) == orderType = LIMIT /\ price <= 0

\* SubmitOrder up to matchOrder: validation, GetOrCreateBook, NewOrder.
SubmitOrder(t, symbol, side, orderType, price, quantity) ==
    /\ pc[t] = "idle"
    /\ IF InvalidQuantity(quantity)
       THEN /\ Return(t, Failure("submit", "quantity must be positive"))
            /\ UNCHANGED << books, nextId, meReaders, ledger, mu >>
       ELSE IF InvalidPrice(orderType, price)
       THEN /\ Return(t, Failure("submit", "price must be positive for limit orders"))
            /\ UNCHANGED << books, nextId, meReaders, ledger, mu >>
       ELSE /\ nextId <= MaxOrders
            /\ CanLockRegistry
            /\ books' = GetOrCreateBook(books, symbol)
            /\ nextId' = nextId + 1
            /\ loc' = [loc EXCEPT ![t] =
                         [NoLoc EXCEPT !.book = symbol,
                            !.order = NewOrder(nextId, symbol, side, orderType,
                                               price, quantity)]]
            /\ call' = [call EXCEPT ![t] = [NoCall EXCEPT !.op = "submit",
                                               !.symbol = symbol]]
            /\ res' = [res EXCEPT ![t] = NoResult]
            /\ Goto(t, "match")
            /\ Account(quantity, 0)
            /\ UNCHANGED << meReaders, mu >>

\* Mutant of Rests: only an order with no fill is added to the book.
RestsUnfilled(order) == order.FilledQuantity = 0 /\ order.Type = LIMIT

\* Whether SubmitOrder adds the order to the book after matchOrder.
Rests(order) == order.FilledQuantity < order.Quantity /\ order.Type = LIMIT

\* Mutant of RestingStatus: the status is left as the order holds it.
RestingStatusKept(order) == order.Status

\* The status SubmitOrder reports for the order it has added to the book,
\* from order.FilledQuantity as it reads it once AddOrder has returned.
RestingStatus(order) ==
    IF order.FilledQuantity > 0 THEN PARTIAL_FILL ELSE ACCEPTED

\* The OrderResult SubmitOrder builds from the order after matchOrder, with
\* the remaining quantity of an order that is to rest and the status of one
\* that is not.
SubmitResult(order, trades) ==
    LET base == [NoResult EXCEPT !.op = "submit", !.OrderID = order.ID,
                    !.Status = order.Status,
                    !.FilledQuantity = order.FilledQuantity,
                    !.Trades = trades, !.order = order]
    IN IF Rests(order)
       THEN [base EXCEPT !.RemainingQuantity = order.Quantity - order.FilledQuantity]
       ELSE IF order.FilledQuantity = order.Quantity
       THEN [base EXCEPT !.Status = FILLED]
       ELSE base

\* matchOrder: matchLimitOrder or matchMarketOrder under book.mu.Lock().
\* SubmitOrder then returns the error, or builds its result; an order that is
\* to rest goes on to AddOrder, which takes the lock again.
MatchOrder(t) ==
    /\ pc[t] = "match"
    /\ LET symbol == loc[t].book
           m == matchOrder(books[symbol], loc[t].order)
           result == SubmitResult(m.order, m.trades)
       IN /\ books' = [books EXCEPT ![symbol] = m.book]
          /\ Account(0, TotalQuantity(m.trades))
          /\ IF m.err
             THEN Return(t, [Failure("submit", "insufficient liquidity")
                                EXCEPT !.order = m.order])
             ELSE IF Rests(m.order)
             THEN /\ Goto(t, "add")
                  /\ loc' = [loc EXCEPT ![t].order = m.order]
                  /\ res' = [res EXCEPT ![t] = result]
                  /\ UNCHANGED call
             ELSE Return(t, result)
    /\ UNCHANGED << nextId, meReaders, mu >>

\* book.AddOrder(order) under book.mu.Lock(): from here the order is the
\* record in book.Orders, which the calls of other threads reach.
AddOrder(t) ==
    /\ pc[t] = "add"
    /\ books' = [books EXCEPT ![loc[t].book] = AddOrderBody(@, loc[t].order)]
    /\ Goto(t, "result")
    /\ UNCHANGED << nextId, meReaders, call, loc, res, ledger, mu >>

\* SubmitOrder after AddOrder: it reads order.FilledQuantity, holding no lock,
\* sets the status of the result it built before AddOrder, and returns it.
SubmitReturn(t) ==
    /\ pc[t] = "result"
    /\ LET order == books[loc[t].book].Orders[loc[t].order.ID]
       IN Return(t, [res[t] EXCEPT !.Status = RestingStatus(order),
                                   !.order = order])
    /\ UNCHANGED << books, nextId, meReaders, ledger, mu >>

\* ------------------------------------------------ CancelOrder, GetOrder
\* me.mu.RLock(), held until the call returns; the range over me.books starts.
\* A reader waits only while a writer holds or awaits the lock, which no
\* thread does from one step to the next.
CancelOrder(t, orderID) ==
    /\ pc[t] = "idle"
    /\ meReaders' = meReaders \cup {t}
    /\ call' = [call EXCEPT ![t] = [NoCall EXCEPT !.op = "cancel", !.id = orderID]]
    /\ loc' = [loc EXCEPT ![t] = [NoLoc EXCEPT !.todo = DOMAIN books]]
    /\ res' = [res EXCEPT ![t] = NoResult]
    /\ Goto(t, "scan")
    /\ UNCHANGED << books, nextId, ledger, mu >>

GetOrder(t, orderID) ==
    /\ pc[t] = "idle"
    /\ meReaders' = meReaders \cup {t}
    /\ call' = [call EXCEPT ![t] = [NoCall EXCEPT !.op = "getorder", !.id = orderID]]
    /\ loc' = [loc EXCEPT ![t] = [NoLoc EXCEPT !.todo = DOMAIN books]]
    /\ res' = [res EXCEPT ![t] = NoResult]
    /\ Goto(t, "scan")
    /\ UNCHANGED << books, nextId, ledger, mu >>

\* Mutant of Exists: a cancelled order is not found.
ExistsLive(book, orderID) ==
    /\ orderID \in DOMAIN book.Orders
    /\ book.Orders[orderID].Status # CANCELLED

\* order, exists := book.Orders[orderID]
Exists(book, orderID) == orderID \in DOMAIN book.Orders

\* The next book of the range (Go ranges over a map in any order):
\* book.Orders[orderID] under book.mu.RLock().  GetOrder returns the order it
\* finds; CancelOrder goes on to read its status, with no lock on the book.
ScanLookup(t, symbol) ==
    /\ pc[t] = "scan"
    /\ symbol \in loc[t].todo
    /\ IF Exists(books[symbol], call[t].id)
       THEN IF call[t].op = "getorder"
            THEN /\ Return(t, [NoResult EXCEPT
                                  !.op = "getorder", !.OrderID = call[t].id,
                                  !.Status = books[symbol].Orders[call[t].id].Status])
                 /\ meReaders' = meReaders \ {t}
            ELSE /\ Goto(t, "can_read")
                 /\ loc' = [loc EXCEPT ![t] = [NoLoc EXCEPT !.book = symbol]]
                 /\ UNCHANGED << meReaders, call, res >>
       ELSE /\ loc' = [loc EXCEPT ![t].todo = @ \ {symbol}]
            /\ UNCHANGED << meReaders, pc, call, res >>
    /\ UNCHANGED << books, nextId, ledger, mu >>

\* The range is over and no book had the order.
ScanNotFound(t) ==
    /\ pc[t] = "scan"
    /\ loc[t].todo = {}
    /\ Return(t, Failure(call[t].op, "order not found"))
    /\ meReaders' = meReaders \ {t}
    /\ UNCHANGED << books, nextId, ledger, mu >>

\* Mutant of CancelReadStatus: the status is not checked.
CancelReadStatusSkipped(t) ==
    /\ pc[t] = "can_read"
    /\ Goto(t, "can_write")
    /\ UNCHANGED << books, nextId, meReaders, call, loc, res, ledger, mu >>

\* if order.Status == FILLED { return error }: a read with no lock on the book.
CancelReadStatus(t) ==
    /\ pc[t] = "can_read"
    /\ IF books[loc[t].book].Orders[call[t].id].Status = FILLED
       THEN /\ Return(t, Failure("cancel", "cannot cancel: order already filled"))
            /\ meReaders' = meReaders \ {t}
       ELSE /\ Goto(t, "can_write")
            /\ UNCHANGED << meReaders, call, loc, res >>
    /\ UNCHANGED << books, nextId, ledger, mu >>

\* order.Status = CANCELLED: a write with no lock on the book.
CancelWriteStatus(t) ==
    /\ pc[t] = "can_write"
    /\ books' = [books EXCEPT ![loc[t].book].Orders[call[t].id].Status = CANCELLED]
    /\ Goto(t, "remove")
    /\ UNCHANGED << nextId, meReaders, call, loc, res, ledger, mu >>

\* book.RemoveOrder(orderID) under book.mu.Lock(), and CancelOrder's return of
\* what it returned.
RemoveOrder(t) ==
    /\ pc[t] = "remove"
    /\ LET symbol == loc[t].book
           id == call[t].id
       IN IF id \notin DOMAIN books[symbol].Orders
          THEN /\ books' = books
               /\ Return(t, Failure("cancel", "order not found"))
          ELSE /\ books' = [books EXCEPT ![symbol] =
                               RemoveOrderBody(@, books[symbol].Orders[id])]
               /\ Return(t, [NoResult EXCEPT !.op = "cancel", !.OrderID = id])
    /\ meReaders' = meReaders \ {t}
    /\ UNCHANGED << nextId, ledger, mu >>

\* ---------------------------------------------------------- GetOrderBook
\* GetOrderBook up to book.mu.RLock(): GetOrCreateBook.
GetOrderBook(t, symbol, depth) ==
    /\ pc[t] = "idle"
    /\ CanLockRegistry
    /\ books' = GetOrCreateBook(books, symbol)
    /\ call' = [call EXCEPT ![t] = [NoCall EXCEPT !.op = "getbook",
                                       !.symbol = symbol, !.depth = depth]]
    /\ loc' = [loc EXCEPT ![t] = [NoLoc EXCEPT !.book = symbol]]
    /\ res' = [res EXCEPT ![t] = NoResult]
    /\ Goto(t, "snapshot")
    /\ UNCHANGED << nextId, meReaders, ledger, mu >>

\* Mutant of SnapshotLevels: the depth does not limit the levels returned.
RECURSIVE SnapshotLevelsAnyDepth(_, _, _)
SnapshotLevelsAnyDepth(levels, depth, ords) ==
    IF levels = << >> THEN << >>
    ELSE LET totalQty == SumRemaining(Head(levels).Orders, ords)
             rest == SnapshotLevelsAnyDepth(Tail(levels), depth, ords)
         IN IF totalQty > 0
            THEN << [Price |-> Head(levels).Price, Quantity |-> totalQty] >> \o rest
            ELSE rest

\* The first `depth` levels of one ladder as PriceLevelSnapshot{Price,
\* Quantity}, a level of total quantity 0 left out.
RECURSIVE SnapshotLevels(_, _, _)
SnapshotLevels(levels, depth, ords) ==
    IF levels = << >> \/ depth <= 0 THEN << >>
    ELSE LET totalQty == SumRemaining(Head(levels).Orders, ords)
             rest == SnapshotLevels(Tail(levels), depth - 1, ords)
         IN IF totalQty > 0
            THEN << [Price |-> Head(levels).Price, Quantity |-> totalQty] >> \o rest
            ELSE rest

\* The snapshot, under book.mu.RLock().
Snapshot(t) ==
    /\ pc[t] = "snapshot"
    /\ LET book == books[loc[t].book] IN
       Return(t, [NoResult EXCEPT !.op = "getbook",
                     !.Bids = SnapshotLevels(book.Bids, call[t].depth, book.Orders),
                     !.Asks = SnapshotLevels(book.Asks, call[t].depth, book.Orders)])
    /\ UNCHANGED << books, nextId, meReaders, ledger, mu >>

\* ----------------------------------------------------------------- locks
\* The calls again, every Lock, RLock, Unlock and RUnlock a step of its own.
\* What a locked section does to the orders is left out (mu, not the orders,
\* decides who waits for whom); where the code branches on an order, either
\* branch may be taken.  pc[t] names the section thread t is at.

\* sync.RWMutex.  Lock: the caller queues for the writers' mutex (q); with it,
\* it announces itself (a), which keeps new readers out, and has the lock (w)
\* once the readers that held it have left.
LockCalled(m, t) == [m EXCEPT !.q = @ \cup {t}]

CanAnnounce(m) == m.a = {} /\ m.w = {}

Announced(m, t) == [m EXCEPT !.q = @ \ {t}, !.a = {t}]

CanLock(m) == m.r = {}

Locked(m, t) == [m EXCEPT !.a = {}, !.w = {t}]

\* Unlock lets in the readers that waited, then frees the writers' mutex.
Unlock(m, t) == [m EXCEPT !.w = @ \ {t}, !.r = @ \cup m.rq, !.rq = {}]

\* RLock returns at once unless a writer has announced itself or holds the
\* lock; then the caller waits (rq) for that writer's Unlock.
CanRLock(m) == m.a = {} /\ m.w = {}

RLockCalled(m, t) ==
    IF CanRLock(m) THEN [m EXCEPT !.r = @ \cup {t}]
    ELSE [m EXCEPT !.rq = @ \cup {t}]

\* Mutant of RUnlock: the read lock is not released.
RUnlockKept(m, t) == m

RUnlock(m, t) == [m EXCEPT !.r = @ \ {t}]

\* The sections that run under me.mu, and the mutex of the section t is at.
RegistrySections == {"goc", "rlock"}

MutexOf(t) == IF pc[t] \in RegistrySections THEN mu.me ELSE mu.book[loc[t].book]

\* How far t is in taking the lock of the section it is at.
Phase(t) ==
    IF t \in MutexOf(t).w \cup MutexOf(t).r THEN "held"
    ELSE IF t \in MutexOf(t).a THEN "announced"
    ELSE IF t \in MutexOf(t).q \cup MutexOf(t).rq THEN "called"
    ELSE "out"

\* mu with the mutex of t's section set to m.
WithMutex(t, m) ==
    IF pc[t] \in RegistrySections THEN [mu EXCEPT !.me = m]
    ELSE [mu EXCEPT !.book[loc[t].book] = m]

\* The call returns.
LockReturn(t) ==
    /\ pc' = [pc EXCEPT ![t] = "idle"]
    /\ call' = [call EXCEPT ![t] = NoCall]
    /\ loc' = [loc EXCEPT ![t] = NoLoc]

\* SubmitOrder with valid arguments, or GetOrderBook: on to GetOrCreateBook.
WriterCall(t, op, symbol) ==
    /\ pc[t] = "idle"
    /\ pc' = [pc EXCEPT ![t] = "goc"]
    /\ call' = [call EXCEPT ![t] = [NoCall EXCEPT !.op = op, !.symbol = symbol]]
    /\ UNCHANGED << books, nextId, meReaders, loc, res, ledger, mu >>

\* CancelOrder or GetOrder: on to me.mu.RLock().
ReaderCall(t, op) ==
    /\ pc[t] = "idle"
    /\ pc' = [pc EXCEPT ![t] = "rlock"]
    /\ call' = [call EXCEPT ![t] = [NoCall EXCEPT !.op = op]]
    /\ UNCHANGED << books, nextId, meReaders, loc, res, ledger, mu >>

\* me.mu.Lock() in GetOrCreateBook, book.mu.Lock() in matchLimitOrder or
\* matchMarketOrder, in AddOrder and in RemoveOrder: the call is made.
LockCall(t) ==
    /\ pc[t] \in {"goc", "match", "add", "remove"}
    /\ Phase(t) = "out"
    /\ mu' = WithMutex(t, LockCalled(MutexOf(t), t))
    /\ UNCHANGED << books, nextId, meReaders, pc, call, loc, res, ledger >>

\* The caller of Lock gets the writers' mutex and announces itself.
LockAnnounce(t) ==
    /\ pc[t] \in {"goc", "match", "add", "remove"}
    /\ Phase(t) = "called"
    /\ CanAnnounce(MutexOf(t))
    /\ mu' = WithMutex(t, Announced(MutexOf(t), t))
    /\ UNCHANGED << books, nextId, meReaders, pc, call, loc, res, ledger >>

\* The Lock call returns.
Lock(t) ==
    /\ pc[t] \in {"goc", "match", "add", "remove"}
    /\ Phase(t) = "announced"
    /\ CanLock(MutexOf(t))
    /\ mu' = WithMutex(t, Locked(MutexOf(t), t))
    /\ UNCHANGED << books, nextId, meReaders, pc, call, loc, res, ledger >>

\* me.mu.RLock() in CancelOrder and GetOrder, book.mu.RLock() in their loop
\* and in GetOrderBook: the call is made, and returns if it need not wait.
RLock(t) ==
    /\ pc[t] \in {"rlock", "lookup", "snapshot"}
    /\ Phase(t) = "out"
    /\ mu' = WithMutex(t, RLockCalled(MutexOf(t), t))
    /\ meReaders' = mu'.me.r
    /\ UNCHANGED << books, nextId, pc, call, loc, res, ledger >>

\* GetOrCreateBook's body and its deferred me.mu.Unlock().
GetOrCreateBookLocked(t) ==
    /\ pc[t] = "goc" /\ Phase(t) = "held"
    /\ books' = GetOrCreateBook(books, call[t].symbol)
    /\ mu' = WithMutex(t, Unlock(mu.me, t))
    /\ meReaders' = mu'.me.r
    /\ loc' = [loc EXCEPT ![t] = [NoLoc EXCEPT !.book = call[t].symbol]]
    /\ pc' = [pc EXCEPT ![t] = IF call[t].op = "submit" THEN "match" ELSE "snapshot"]
    /\ UNCHANGED << nextId, call, res, ledger >>

\* matchLimitOrder's or matchMarketOrder's body and its deferred
\* book.mu.Unlock(); SubmitOrder then returns, or goes on to book.AddOrder.
MatchLocked(t, rests) ==
    /\ pc[t] = "match" /\ Phase(t) = "held"
    /\ mu' = WithMutex(t, Unlock(MutexOf(t), t))
    /\ IF rests
       THEN /\ pc' = [pc EXCEPT ![t] = "add"]
            /\ UNCHANGED << call, loc >>
       ELSE LockReturn(t)
    /\ UNCHANGED << books, nextId, meReaders, res, ledger >>

\* AddOrder's body and its deferred book.mu.Unlock(); SubmitOrder takes no
\* other lock and returns.
AddLocked(t) ==
    /\ pc[t] = "add" /\ Phase(t) = "held"
    /\ mu' = WithMutex(t, Unlock(MutexOf(t), t))
    /\ LockReturn(t)
    /\ UNCHANGED << books, nextId, meReaders, res, ledger >>

\* for _, book := range me.books, under me.mu.RLock(): the range starts.
RangeStart(t) ==
    /\ pc[t] = "rlock" /\ Phase(t) = "held"
    /\ pc' = [pc EXCEPT ![t] = "scan"]
    /\ loc' = [loc EXCEPT ![t] = [NoLoc EXCEPT !.todo = DOMAIN books]]
    /\ UNCHANGED << books, nextId, meReaders, call, res, ledger, mu >>

\* The next book of the range, in any order.
RangeNext(t, symbol) ==
    /\ pc[t] = "scan"
    /\ symbol \in loc[t].todo
    /\ loc' = [loc EXCEPT ![t] = [book |-> symbol, todo |-> loc[t].todo \ {symbol},
                                  order |-> NoOrder]]
    /\ pc' = [pc EXCEPT ![t] = "lookup"]
    /\ UNCHANGED << books, nextId, meReaders, call, res, ledger, mu >>

\* The range is over: the not-found return and the deferred me.mu.RUnlock().
RangeEnd(t) ==
    /\ pc[t] = "scan"
    /\ loc[t].todo = {}
    /\ mu' = [mu EXCEPT !.me = RUnlock(@, t)]
    /\ meReaders' = mu'.me.r
    /\ LockReturn(t)
    /\ UNCHANGED << books, nextId, res, ledger >>

\* order, exists := book.Orders[orderID] and book.mu.RUnlock().  GetOrder
\* returns the order it finds; CancelOrder goes on to its status.
LookupRLocked(t, exists) ==
    /\ pc[t] = "lookup" /\ Phase(t) = "held"
    /\ IF exists /\ call[t].op = "getorder"
       THEN /\ mu' = [WithMutex(t, RUnlock(MutexOf(t), t)) EXCEPT !.me = RUnlock(@, t)]
            /\ LockReturn(t)
       ELSE /\ mu' = WithMutex(t, RUnlock(MutexOf(t), t))
            /\ pc' = [pc EXCEPT ![t] = IF exists THEN "can_read" ELSE "scan"]
            /\ UNCHANGED << call, loc >>
    /\ meReaders' = mu'.me.r
    /\ UNCHANGED << books, nextId, res, ledger >>

\* if order.Status == FILLED { return error }, with no lock on the book.
StatusCheck(t, filled) ==
    /\ pc[t] = "can_read"
    /\ IF filled
       THEN /\ mu' = [mu EXCEPT !.me = RUnlock(@, t)]
            /\ LockReturn(t)
       ELSE /\ pc' = [pc EXCEPT ![t] = "can_write"]
            /\ UNCHANGED << call, loc, mu >>
    /\ meReaders' = mu'.me.r
    /\ UNCHANGED << books, nextId, res, ledger >>

\* order.Status = CANCELLED, with no lock on the book.
StatusWrite(t) ==
    /\ pc[t] = "can_write"
    /\ pc' = [pc EXCEPT ![t] = "remove"]
    /\ UNCHANGED << books, nextId, meReaders, call, loc, res, ledger, mu >>

\* RemoveOrder's body and its deferred book.mu.Unlock(); CancelOrder returns,
\* with its deferred me.mu.RUnlock().
RemoveLocked(t) ==
    /\ pc[t] = "remove" /\ Phase(t) = "held"
    /\ mu' = [WithMutex(t, Unlock(MutexOf(t), t)) EXCEPT !.me = RUnlock(@, t)]
    /\ meReaders' = mu'.me.r
    /\ LockReturn(t)
    /\ UNCHANGED << books, nextId, res, ledger >>

\* GetOrderBook's snapshot and its deferred book.mu.RUnlock().
SnapshotRLocked(t) ==
    /\ pc[t] = "snapshot" /\ Phase(t) = "held"
    /\ mu' = WithMutex(t, RUnlock(MutexOf(t), t))
    /\ LockReturn(t)
    /\ UNCHANGED << books, nextId, meReaders, res, ledger >>

\* ------------------------------------------------------- specifications
\* One step of thread t, whose calls name the symbols of `symbols` and create
\* at most `orders` orders: it starts a call, or takes the next step of its call.
Step(t, symbols, orders) ==
    \/ \E symbol \in symbols, side \in OrderSide, orderType \in OrderType,
          price \in PriceInputs, quantity \in QtyInputs :
            /\ SubmitOrder(t, symbol, side, orderType, price, quantity)
            /\ nextId' <= orders + 1
    \/ MatchOrder(t)
    \/ AddOrder(t)
    \/ SubmitReturn(t)
    \/ \E orderID \in 1..orders : CancelOrder(t, orderID)
    \/ \E orderID \in 1..orders : GetOrder(t, orderID)
    \/ \E symbol \in symbols : ScanLookup(t, symbol)
    \/ ScanNotFound(t)
    \/ CancelReadStatus(t)
    \/ CancelWriteStatus(t)
    \/ RemoveOrder(t)
    \/ \E symbol \in symbols, depth \in DepthInputs : GetOrderBook(t, symbol, depth)
    \/ Snapshot(t)

\* Calls applied one at a time to one symbol's book: a single client thread.
SeqNext == Step("t1", OneSymbol, MaxOrders)

SeqSpec == Init /\ [][SeqNext]_vars

\* Concurrent calls on one symbol: every thread steps, in any interleaving.
Next == \E t \in Threads : Step(t, OneSymbol, MaxConcOrders)

Spec == Init /\ [][Next]_vars

\* Calls applied one at a time to the books of two symbols: a single client
\* thread, as in TestMultipleSymbols.
IsoNext ==
    LET t == "t1" IN
    \/ \E symbol \in Symbols, side \in OrderSide, orderType \in OrderType,
          price \in 1..MaxPrice, quantity \in 1..MaxQty :
            SubmitOrder(t, symbol, side, orderType, price, quantity)
    \/ MatchOrder(t)
    \/ AddOrder(t)
    \/ SubmitReturn(t)
    \/ \E orderID \in 1..MaxOrders : CancelOrder(t, orderID)
    \/ \E symbol \in Symbols : ScanLookup(t, symbol)
    \/ ScanNotFound(t)
    \/ CancelReadStatus(t)
    \/ CancelWriteStatus(t)
    \/ RemoveOrder(t)
    \/ \E symbol \in Symbols, depth \in DepthInputs : GetOrderBook(t, symbol, depth)
    \/ Snapshot(t)

IsoSpec == Init /\ [][IsoNext]_vars

\* Calls applied one at a time to one symbol's book, GetOrderBook asking for
\* no level, fewer levels than a ladder has, and as many.
SnapshotNext ==
    LET t == "t1" IN
    \/ \E symbol \in OneSymbol, side \in OrderSide, orderType \in OrderType,
          price \in 1..MaxPrice, quantity \in 1..MaxQty :
            SubmitOrder(t, symbol, side, orderType, price, quantity)
    \/ MatchOrder(t)
    \/ AddOrder(t)
    \/ SubmitReturn(t)
    \/ \E orderID \in 1..MaxOrders : CancelOrder(t, orderID)
    \/ \E symbol \in OneSymbol : ScanLookup(t, symbol)
    \/ ScanNotFound(t)
    \/ CancelReadStatus(t)
    \/ CancelWriteStatus(t)
    \/ RemoveOrder(t)
    \/ \E symbol \in OneSymbol, depth \in 0..MaxSnapshotDepth :
            GetOrderBook(t, symbol, depth)
    \/ Snapshot(t)

SnapshotSpec == Init /\ [][SnapshotNext]_vars

\* Concurrent calls on two symbols, lock by lock.  A thread that has started
\* a call goes on when it can (Running); a Lock call that could have the
\* writers' mutex again and again does get it (sync.Mutex hands the mutex to
\* a caller that has waited).
Running(t) ==
    \/ LockCall(t)
    \/ Lock(t)
    \/ RLock(t)
    \/ RangeStart(t)
    \/ GetOrCreateBookLocked(t)
    \/ \E rests \in BOOLEAN : MatchLocked(t, rests)
    \/ AddLocked(t)
    \/ \E symbol \in Symbols : RangeNext(t, symbol)
    \/ RangeEnd(t)
    \/ \E exists \in BOOLEAN : LookupRLocked(t, exists)
    \/ \E filled \in BOOLEAN : StatusCheck(t, filled)
    \/ StatusWrite(t)
    \/ RemoveLocked(t)
    \/ SnapshotRLocked(t)

LockNext ==
    \E t \in Threads :
        \/ \E op \in {"submit", "getbook"}, symbol \in Symbols : WriterCall(t, op, symbol)
        \/ \E op \in {"cancel", "getorder"} : ReaderCall(t, op)
        \/ LockAnnounce(t)
        \/ Running(t)

LockSpec ==
    /\ Init
    /\ [][LockNext]_vars
    /\ \A t \in Threads :
          WF_vars(Running(t)) /\ SF_vars(LockAnnounce(t))

\* Concurrent LIMIT submissions and nothing else, the clients keeping totals
\* of the quantities they submit and of the trades returned to them.
LimitInit ==
    /\ books = << >>
    /\ nextId = 1
    /\ meReaders = {}
    /\ pc = [t \in Threads |-> "idle"]
    /\ call = [t \in Threads |-> NoCall]
    /\ loc = [t \in Threads |-> NoLoc]
    /\ res = [t \in Threads |-> NoResult]
    /\ ledger = [NoLedger EXCEPT !.on = TRUE]
    /\ mu = NoLocks

LimitNext ==
    \E t \in Threads :
        \/ \E symbol \in OneSymbol, side \in OrderSide,
              price \in 1..MaxPrice, quantity \in 1..MaxQty :
                SubmitOrder(t, symbol, side, LIMIT, price, quantity)
        \/ MatchOrder(t)
        \/ AddOrder(t)
        \/ SubmitReturn(t)

LimitSpec == LimitInit /\ [][LimitNext]_vars

\* ------------------------------------------------------ claim vocabulary
\* The ids queued in a ladder, best level first, each level in queue order.
RECURSIVE Flatten(_)
Flatten(levels) ==
    IF levels = << >> THEN << >>
    ELSE Head(levels).Orders \o Flatten(Tail(levels))

IdsOf(levels) == {Flatten(levels)[i] : i \in 1..Len(Flatten(levels))}

RECURSIVE SumQuantity(_)
SumQuantity(trades) ==
    IF trades = << >> THEN 0
    ELSE Head(trades).Quantity + SumQuantity(Tail(trades))

\* Thread t takes the step that runs matchOrder.
MatchStep(t) == pc[t] = "match" /\ pc'[t] # "match"

\* In a match step of t: the incoming order, the ladder it trades against as
\* it is before the step, the trades of the step, each trade's resting order.
Incoming(t) == loc[t].order
OpposingBefore(t) ==
    IF Incoming(t).Side = BUY THEN books[loc[t].book].Asks
    ELSE books[loc[t].book].Bids
TradesOf(t) == res'[t].Trades
RestingId(t, trade) ==
    IF Incoming(t).Side = BUY THEN trade.SellerID ELSE trade.BuyerID
\* The position in the step's trades of the first trade against order id, 0 if none.
TradeIndex(t, id) ==
    IF \E k \in 1..Len(TradesOf(t)) : RestingId(t, TradesOf(t)[k]) = id
    THEN CHOOSE k \in 1..Len(TradesOf(t)) :
            /\ RestingId(t, TradesOf(t)[k]) = id
            /\ \A j \in 1..(k - 1) : RestingId(t, TradesOf(t)[j]) # id
    ELSE 0

\* Every queue of every ladder holds its orders in the order of their ids,
\* which is, for calls applied one at a time, the order they were inserted in.
QueuesInInsertionOrder ==
    \A s \in DOMAIN books : \A side \in {"Bids", "Asks"} :
        \A l \in 1..Len(books[s][side]) :
            LET q == books[s][side][l].Orders IN
            \A i, j \in 1..Len(q) : i < j => q[i] < q[j]

\* ---------------------------------------------------------------- claims
\* C1: FIFO within a price.  For calls applied one at a time, every queue is
\* in insertion order, and a match that trades against an order of a level has
\* traded before with every order queued ahead of it in that level and has
\* filled each of them completely, the trades listed in queue order.
FifoMatch(t) ==
    \A l \in 1..Len(OpposingBefore(t)) :
        LET q == OpposingBefore(t)[l].Orders IN
        \A i, j \in 1..Len(q) :
            (i < j /\ TradeIndex(t, q[j]) # 0) =>
                /\ TradeIndex(t, q[i]) # 0
                /\ TradeIndex(t, q[i]) < TradeIndex(t, q[j])
                /\ LET o == books'[loc[t].book].Orders[q[i]] IN
                   o.FilledQuantity = o.Quantity

C1_FifoWithinPrice ==
    [][/\ \A t \in Threads : MatchStep(t) => FifoMatch(t)
       /\ QueuesInInsertionOrder']_vars

\* A match has just filled two orders of one price level.
C1_Witness ==
    \E t \in Threads :
        /\ pc[t] = "idle" /\ res[t].op = "submit" /\ Len(res[t].Trades) >= 2
        /\ res[t].Trades[1].Price = res[t].Trades[2].Price
        /\ res[t].Trades[1].SellerID # res[t].Trades[2].SellerID

\* C2: price priority.  Every trade of a match is against the head of the
\* best opposing level at that moment: its resting order is the k-th of the
\* ladder read best level first, no order left untraded by the earlier trades
\* has a strictly better price, and the trade prices never improve along the list.
Better(side, p, q) == IF side = BUY THEN p < q ELSE p > q

PriceOrderedMatch(t) ==
    LET before == Flatten(OpposingBefore(t))
        ords == books[loc[t].book].Orders
        tr == TradesOf(t)
    IN /\ Len(tr) <= Len(before)
       /\ \A k \in 1..Len(tr) :
            /\ RestingId(t, tr[k]) = before[k]
            /\ \A j \in (k + 1)..Len(before) :
                  ~Better(Incoming(t).Side, ords[before[j]].Price, tr[k].Price)
            /\ k > 1 => ~Better(Incoming(t).Side, tr[k].Price, tr[k - 1].Price)

C2_PricePriority ==
    [][\A t \in Threads : MatchStep(t) => PriceOrderedMatch(t)]_vars

\* A match has just traded at two prices.
C2_Witness ==
    \E t \in Threads :
        /\ pc[t] = "idle" /\ res[t].op = "submit" /\ Len(res[t].Trades) >= 2
        /\ res[t].Trades[1].Price # res[t].Trades[2].Price

\* C3: price improvement.  Every trade's price is the limit price of its
\* resting order, and is never worse than a LIMIT incoming order's limit.
ImprovedMatch(t) ==
    \A k \in 1..Len(TradesOf(t)) :
        LET trade == TradesOf(t)[k] IN
        /\ trade.Price = books[loc[t].book].Orders[RestingId(t, trade)].Price
        /\ Incoming(t).Type = LIMIT =>
              ~Better(Incoming(t).Side, Incoming(t).Price, trade.Price)

C3_PriceImprovement ==
    [][\A t \in Threads : MatchStep(t) => ImprovedMatch(t)]_vars

\* A LIMIT order has traded at a price strictly better than its limit.
C3_Witness ==
    \E t \in Threads :
        /\ pc[t] = "idle" /\ res[t].op = "submit" /\ res[t].order.Type = LIMIT
        /\ Len(res[t].Trades) >= 1
        /\ res[t].Trades[1].Price # res[t].order.Price

\* C4: never crossed at rest.  After any sequence of calls applied one at a
\* time, a book with both ladders non-empty has best bid < best ask.
Quiescent == \A t \in Threads : pc[t] = "idle"

Crossed(book) ==
    /\ Len(book.Bids) > 0 /\ Len(book.Asks) > 0
    /\ ~(book.Bids[1].Price < book.Asks[1].Price)

C4_NeverCrossedAtRest ==
    Quiescent => \A s \in DOMAIN books : ~Crossed(books[s])

\* At rest after a match, with both ladders non-empty.
C4_Witness ==
    /\ Quiescent
    /\ \E t \in Threads : res[t].op = "submit" /\ Len(res[t].Trades) >= 1
    /\ \E s \in DOMAIN books : Len(books[s].Bids) > 0 /\ Len(books[s].Asks) > 0

\* C5: atomic match-and-rest under concurrency.  Under every interleaving of
\* concurrent SubmitOrder calls on one symbol, once every started call has
\* returned the book is not crossed: with both ladders non-empty, the best bid
\* is strictly less than the best ask.
C5_QuiescentNotCrossed ==
    (\A t \in Threads : pc[t] = "idle") =>
        \A s \in DOMAIN books :
            (Len(books[s].Bids) > 0 /\ Len(books[s].Asks) > 0) =>
                GetBestBid(books[s]) < GetBestAsk(books[s])

\* C6: MARKET rejection is atomic.  When a MARKET order's quantity is strictly
\* more than the total remaining quantity of the opposing ladder, the call
\* returns the insufficient-liquidity error with no trade, and both ladders,
\* the id index and every order record are as they were.
MarketShort(t) ==
    /\ Incoming(t).Type = MARKET
    /\ Incoming(t).Quantity >
         availableLiquidity(OpposingBefore(t), books[loc[t].book].Orders)

C6_MarketRejectionAtomic ==
    [][\A t \in Threads : (MatchStep(t) /\ MarketShort(t)) =>
          /\ pc'[t] = "idle"
          /\ res'[t].err = "insufficient liquidity"
          /\ res'[t].Trades = << >>
          /\ books' = books]_vars

\* A MARKET order has been rejected with orders resting on the opposing side.
C6_Witness ==
    \E t \in Threads :
        /\ pc[t] = "idle" /\ res[t].err = "insufficient liquidity"
        /\ res[t].order.Type = MARKET
        /\ LET book == books[res[t].order.Symbol] IN
           IF res[t].order.Side = BUY THEN book.Asks # << >> ELSE book.Bids # << >>

\* C7: a MARKET order is never partially filled and never rests.  Under every
\* interleaving, a MARKET submission that returns no error returns FILLED with
\* filled quantity and summed trade quantity equal to its quantity; no ladder
\* queues a MARKET order, and no MARKET order is on its way to AddOrder.
C7_MarketFilledNeverRests ==
    /\ \A t \in Threads :
          (/\ pc[t] = "idle" /\ res[t].op = "submit" /\ res[t].err = ""
           /\ res[t].order.Type = MARKET) =>
              /\ res[t].Status = FILLED
              /\ res[t].FilledQuantity = res[t].order.Quantity
              /\ SumQuantity(res[t].Trades) = res[t].order.Quantity
    /\ \A s \in DOMAIN books :
          \A id \in IdsOf(books[s].Bids) \cup IdsOf(books[s].Asks) :
              books[s].Orders[id].Type = LIMIT
    /\ \A t \in Threads : pc[t] = "add" => loc[t].order.Type = LIMIT

\* A MARKET submission has returned FILLED while the other thread is in a call.
C7_Witness ==
    \E t, u \in Threads :
        /\ pc[t] = "idle" /\ res[t].op = "submit" /\ res[t].err = ""
        /\ res[t].order.Type = MARKET /\ res[t].Status = FILLED
        /\ pc[u] # "idle"

\* C8: input validation has no effect on state.  SubmitOrder with a quantity
\* <= 0, or as a LIMIT with a price <= 0, returns an error at once; no book is
\* created, no order is created, and no ladder or record changes.
InvalidInputs ==
    {inp \in OrderType \X PriceInputs \X QtyInputs :
        inp[3] <= 0 \/ (inp[1] = LIMIT /\ inp[2] <= 0)}

C8_ValidationNoEffect ==
    [][\A t \in Threads, symbol \in OneSymbol, side \in OrderSide, inp \in InvalidInputs :
          SubmitOrder(t, symbol, side, inp[1], inp[2], inp[3]) =>
              /\ pc'[t] = "idle"
              /\ res'[t].err # ""
              /\ books' = books
              /\ nextId' = nextId]_vars

\* A submission has been rejected by validation, and the engine has no book.
C8_Witness ==
    \E t \in Threads :
        /\ pc[t] = "idle" /\ res[t].op = "submit"
        /\ res[t].err \in {"quantity must be positive", "price must be positive for limit orders"}
        /\ DOMAIN books = {}

\* C9: LIMIT result status.  For a LIMIT submission applied on its own, with
\* filled the summed quantity of its trades: the result is FILLED iff filled =
\* quantity, and the order is then in no ladder; PARTIAL_FILL iff 0 < filled <
\* quantity, with remaining = quantity - filled and the order queued on its
\* own side; ACCEPTED iff filled = 0, with no trade, remaining = quantity and
\* the order queued on its own side.
LimitResult(t) ==
    LET o == res[t].order
        filled == SumQuantity(res[t].Trades)
        book == books[o.Symbol]
        own == IF o.Side = BUY THEN book.Bids ELSE book.Asks
        other == IF o.Side = BUY THEN book.Asks ELSE book.Bids
    IN /\ res[t].FilledQuantity = filled
       /\ o.ID \notin IdsOf(other)
       /\ res[t].Status = FILLED <=> filled = o.Quantity
       /\ res[t].Status = FILLED => o.ID \notin IdsOf(own)
       /\ res[t].Status = PARTIAL_FILL <=> (0 < filled /\ filled < o.Quantity)
       /\ res[t].Status = PARTIAL_FILL =>
             /\ res[t].RemainingQuantity = o.Quantity - filled
             /\ o.ID \in IdsOf(own)
       /\ res[t].Status = ACCEPTED <=> filled = 0
       /\ res[t].Status = ACCEPTED =>
             /\ res[t].Trades = << >>
             /\ res[t].RemainingQuantity = o.Quantity
             /\ o.ID \in IdsOf(own)

C9_LimitResultStatus ==
    \A t \in Threads :
        (/\ pc[t] = "idle" /\ res[t].op = "submit" /\ res[t].err = ""
         /\ res[t].order.Type = LIMIT) => LimitResult(t)

\* A LIMIT submission has returned PARTIAL_FILL and rests on its own side.
C9_Witness ==
    \E t \in Threads :
        /\ pc[t] = "idle" /\ res[t].op = "submit" /\ res[t].err = ""
        /\ res[t].order.Type = LIMIT /\ res[t].Status = PARTIAL_FILL
        /\ res[t].order.ID \in IdsOf(books[res[t].order.Symbol].Bids)

\* C10: stored status matches fill state.  Every record of a book's id index
\* that is not cancelled and has 0 < filled < quantity has status PARTIAL_FILL.
C10_StoredStatusMatchesFill ==
    \A s \in DOMAIN books : \A id \in DOMAIN books[s].Orders :
        LET o == books[s].Orders[id] IN
        (o.Status # CANCELLED /\ 0 < o.FilledQuantity /\ o.FilledQuantity < o.Quantity)
            => o.Status = PARTIAL_FILL

\* The id index of the engine: whether some book registers id, and its record.
InIndex(id) == \E s \in DOMAIN books : id \in DOMAIN books[s].Orders

Record(id) ==
    books[CHOOSE s \in DOMAIN books : id \in DOMAIN books[s].Orders].Orders[id]

\* Thread t takes the step on which its GetOrder call returns.
GetOrderStep(t) == pc[t] = "scan" /\ call[t].op = "getorder" /\ pc'[t] = "idle"

\* C11: every submitted order is retrievable by id.  After a SubmitOrder call
\* has returned a result, its order id is registered in a book's id index,
\* which is what a later GetOrder needs to find it.
C11_SubmittedRetrievable ==
    \A t \in Threads :
        (pc[t] = "idle" /\ res[t].op = "submit" /\ res[t].err = "") =>
            InIndex(res[t].OrderID)

\* C12: index retention.  No step removes an id from a book's index; a
\* registered order that is completely filled has status FILLED, a cancelled
\* one stays CANCELLED, and GetOrder with a registered id succeeds and returns
\* the record's status.
IndexKept ==
    \A s \in DOMAIN books :
        /\ s \in DOMAIN books'
        /\ DOMAIN books[s].Orders \subseteq DOMAIN books'[s].Orders

EndStatusKept ==
    \A s \in DOMAIN books' : \A id \in DOMAIN books'[s].Orders :
        LET o == books'[s].Orders[id] IN
        /\ o.FilledQuantity = o.Quantity => o.Status = FILLED
        /\ (s \in DOMAIN books /\ id \in DOMAIN books[s].Orders
            /\ books[s].Orders[id].Status = CANCELLED) => o.Status = CANCELLED

Without(q, id) == SelectSeq(q, LAMBDA x : x # id)

LadderWithout(levels, id) ==
    SelectSeq([i \in 1..Len(levels) |-> [levels[i] EXCEPT !.Orders = Without(@, id)]],
              LAMBDA level : level.Orders # << >>)

CancelRemoves(t) ==
    LET s == loc[t].book
        id == call[t].id
        o == books[s].Orders[id]
    IN (id \in IdsOf(books[s].Bids) \cup IdsOf(books[s].Asks)) =>
          /\ res'[t].err = ""
          /\ books'[s].Orders = books[s].Orders
          /\ o.Status = CANCELLED
          /\ books'[s].Bids = IF o.Side = BUY THEN LadderWithout(books[s].Bids, id)
                              ELSE books[s].Bids
          /\ books'[s].Asks = IF o.Side = SELL THEN LadderWithout(books[s].Asks, id)
                              ELSE books[s].Asks

NonCrossing(book, side, price) ==
    IF side = BUY THEN book.Asks = << >> \/ price < book.Asks[1].Price
    ELSE book.Bids = << >> \/ price > book.Bids[1].Price

InsertThenCancelRestores ==
    \A s \in DOMAIN books, side \in OrderSide,
       price \in 1..MaxPrice, quantity \in 1..MaxQty :
        LET o == NewOrder(nextId, s, side, LIMIT, price, quantity)
            after == RemoveOrderBody(
                        [AddOrderBody(books[s], o) EXCEPT !.Orders[o.ID].Status = CANCELLED],
                        [o EXCEPT !.Status = CANCELLED])
        IN NonCrossing(books[s], side, price) =>
              /\ matchOrder(books[s], o) =
                    [err |-> FALSE, book |-> books[s], order |-> o, trades |-> << >>]
              /\ after.Bids = books[s].Bids
              /\ after.Asks = books[s].Asks
              /\ \A id \in DOMAIN books[s].Orders : after.Orders[id] = books[s].Orders[id]

C14_CancelRemovesFromLadder ==
    [][/\ \A t \in Threads : (pc[t] = "remove" /\ pc'[t] = "idle") => CancelRemoves(t)
       /\ books' # books => InsertThenCancelRestores']_vars

\* A cancel has taken an order out of the middle of a queue of three.
C14_Witness ==
    \E t \in Threads :
        /\ pc[t] = "idle" /\ res[t].op = "cancel" /\ res[t].err = ""
        /\ \E s \in DOMAIN books : \E l \in 1..Len(books[s].Bids) :
              LET q == books[s].Bids[l].Orders IN
              /\ Len(q) = 2 /\ q[1] < res[t].OrderID /\ res[t].OrderID < q[2]
              /\ books[s].Orders[res[t].OrderID].Status = CANCELLED
              /\ books[s].Orders[res[t].OrderID].Price = books[s].Bids[l].Price

\* C15: cancel failure leaves state unchanged.  A CancelOrder whose id is in
\* no book goes through its scan to the not-found error, and one that finds
\* its order FILLED returns the not-cancellable error; no step of either
\* changes a ladder, the index or a record.
CancelFails(t) ==
    /\ (pc[t] = "idle" /\ call'[t].op = "cancel") => books' = books
    /\ (pc[t] = "scan" /\ call[t].op = "cancel" /\ pc'[t] # "scan") =>
          /\ books' = books
          /\ IF InIndex(call[t].id) THEN pc'[t] = "can_read"
             ELSE pc'[t] = "idle" /\ res'[t].err = "order not found"
    /\ (pc[t] = "scan" /\ call[t].op = "cancel" /\ pc'[t] = "scan") => books' = books
    /\ (pc[t] = "can_read" /\ pc'[t] # "can_read"
        /\ Record(call[t].id).Status = FILLED) =>
          /\ books' = books
          /\ pc'[t] = "idle"
          /\ res'[t].err = "cannot cancel: order already filled"

C15_CancelFailureNoEffect ==
    [][\A t \in Threads : CancelFails(t)]_vars

\* A cancel of a FILLED order has been refused, and the order is still FILLED.
C15_Witness ==
    \E t \in Threads :
        /\ pc[t] = "idle" /\ res[t].op = "cancel"
        /\ res[t].err = "cannot cancel: order already filled"
        /\ \E s \in DOMAIN books : \E id \in DOMAIN books[s].Orders :
              books[s].Orders[id].Status = FILLED

\* C16: cancelling an already cancelled order fails.  For calls applied one at
\* a time, an order that is registered, is queued in no ladder and was not
\* FILLED when CancelOrder read its status is one an earlier CancelOrder has
\* cancelled: the call that reaches RemoveOrder for such an order returns an
\* error, so that CancelOrder returns success at most once for an order.
C16_SecondCancelFails ==
    [][\A t \in Threads :
          (/\ pc[t] = "remove" /\ pc'[t] = "idle"
           /\ \A s \in DOMAIN books :
                 call[t].id \notin IdsOf(books[s].Bids) \cup IdsOf(books[s].Asks))
          => res'[t].err # ""]_vars

\* C17: the cancel/match race is serialized.  Under every interleaving of
\* CancelOrder with concurrent SubmitOrder calls on the order's book: an order
\* that a match has completely filled stays FILLED (its cancel is refused),
\* and no match generates a trade against an order whose status is CANCELLED.
C17_CancelMatchSerialized ==
    [][/\ \A s \in DOMAIN books : \A id \in DOMAIN books[s].Orders :
             books[s].Orders[id].Status = FILLED =>
                books'[s].Orders[id].Status = FILLED
       /\ \A t \in Threads : MatchStep(t) =>
             \A k \in 1..Len(TradesOf(t)) :
                books[loc[t].book].Orders[RestingId(t, TradesOf(t)[k])].Status
                   # CANCELLED]_vars

\* C18: conservation per submission.  In every match, the trade quantities sum
\* to the filled quantity of the result and to the decrease of the remaining
\* quantity of the opposing ladder's resting orders; each trade quantity is
\* positive and is the lesser of what the incoming order and the resting order
\* had remaining at the moment of the trade.
TradedBefore(t, k) == SumQuantity(SubSeq(TradesOf(t), 1, k - 1))

TradedBeforeWith(t, k, id) ==
    SumQuantity(SelectSeq(SubSeq(TradesOf(t), 1, k - 1),
                          LAMBDA trade : RestingId(t, trade) = id))

ConservedMatch(t) ==
    LET ords == books[loc[t].book].Orders
        tr == TradesOf(t)
    IN /\ SumQuantity(tr) = res'[t].FilledQuantity
       /\ SumQuantity(tr) =
             availableLiquidity(OpposingBefore(t), ords)
             - availableLiquidity(OpposingBefore(t), books'[loc[t].book].Orders)
       /\ \A k \in 1..Len(tr) :
             LET id == RestingId(t, tr[k])
                 incoming == Incoming(t).Quantity - Incoming(t).FilledQuantity
                                - TradedBefore(t, k)
                 resting == ords[id].Quantity - ords[id].FilledQuantity
                               - TradedBeforeWith(t, k, id)
             IN /\ tr[k].Quantity > 0
                /\ tr[k].Quantity = IF incoming < resting THEN incoming ELSE resting

C18_ConservationPerSubmission ==
    [][\A t \in Threads : MatchStep(t) => ConservedMatch(t)]_vars

\* A match of two trades has left its second resting order partially filled.
C18_Witness ==
    \E t \in Threads :
        /\ pc[t] = "idle" /\ res[t].op = "submit" /\ res[t].err = ""
        /\ Len(res[t].Trades) = 2
        /\ \E s \in DOMAIN books : \E id \in DOMAIN books[s].Orders :
              /\ id \in {res[t].Trades[2].BuyerID, res[t].Trades[2].SellerID}
              /\ books[s].Orders[id].Status = PARTIAL_FILL
              /\ books[s].Orders[id].FilledQuantity = res[t].Trades[2].Quantity

\* The remaining quantity of every order queued in a ladder of a book.
TotalResting ==
    LET s == CHOOSE x \in OneSymbol : TRUE IN
    IF s \in DOMAIN books
    THEN availableLiquidity(books[s].Bids, books[s].Orders)
         + availableLiquidity(books[s].Asks, books[s].Orders)
    ELSE 0

\* C19 as stated: after concurrent LIMIT submissions have all returned, the
\* total resting quantity is the quantity submitted less the quantity of the
\* trades returned.
C19_RestingIsSubmittedLessTraded ==
    (\A t \in Threads : pc[t] = "idle") =>
        TotalResting = ledger.submitted - ledger.traded

\* C19 amended: after concurrent LIMIT submissions have all returned, the
\* total resting quantity is the quantity submitted less twice the quantity of
\* the trades returned (a trade fills its buyer and its seller).
C19_RestingIsSubmittedLessTwiceTraded ==
    (\A t \in Threads : pc[t] = "idle") =>
        TotalResting = ledger.submitted - 2 * ledger.traded

\* Both threads have submitted, trades have been returned, orders still rest.
C19_Witness ==
    /\ \A t \in Threads : pc[t] = "idle" /\ res[t].op = "submit"
    /\ ledger.on /\ ledger.traded > 0 /\ TotalResting > 0
    /\ nextId = MaxOrders + 1

\* The symbols a call is for: the symbol it names, or for CancelOrder the
\* symbol its order was submitted with.
CallSymbols(c) ==
    IF c.op = "cancel"
    THEN {books[s].Orders[c.id].Symbol :
            s \in {x \in DOMAIN books : c.id \in DOMAIN books[x].Orders}}
    ELSE {c.symbol}

\* The call thread t starts or continues in a step.
CurrentCall(t) == IF pc[t] = "idle" THEN call'[t] ELSE call[t]

\* Thread t takes a step.
Stepped(t) == pc'[t] # pc[t] \/ loc'[t] # loc[t]

\* A step of a call leaves every book of another symbol as it was, and
\* creates no book of another symbol.
OtherBooksKept(t) ==
    books' # books =>
        \A B \in DOMAIN books \cup DOMAIN books' :
            B \notin CallSymbols(CurrentCall(t)) =>
                /\ B \in DOMAIN books
                /\ B \in DOMAIN books'
                /\ books'[B] = books[B]

\* Every trade of a match step is between the incoming order and an order
\* that was submitted with the same symbol.
TradesWithinSymbol(t) ==
    \A k \in 1..Len(TradesOf(t)) :
        LET id == RestingId(t, TradesOf(t)[k]) IN
        /\ {TradesOf(t)[k].BuyerID, TradesOf(t)[k].SellerID} = {id, Incoming(t).ID}
        /\ InIndex(id)
        /\ \A s \in DOMAIN books :
              id \in DOMAIN books[s].Orders =>
                  books[s].Orders[id].Symbol = Incoming(t).Symbol

\* In queue q, the remaining quantity of the orders submitted with `symbol`
\* at `price`.
RECURSIVE OwnRemaining(_, _, _, _)
OwnRemaining(q, ords, symbol, price) ==
    IF q = << >> THEN 0
    ELSE (IF ords[Head(q)].Symbol = symbol /\ ords[Head(q)].Price = price
          THEN ords[Head(q)].Quantity - ords[Head(q)].FilledQuantity
          ELSE 0)
         + OwnRemaining(Tail(q), ords, symbol, price)

\* Over the books of the symbols ss, the quantity queued on `side` at `price`
\* by orders submitted with `symbol`.
RECURSIVE OwnQuantity(_, _, _, _)
OwnQuantity(ss, symbol, side, price) ==
    IF ss = {} THEN 0
    ELSE LET s == CHOOSE x \in ss : TRUE
             ladder == IF side = BUY THEN books[s].Bids ELSE books[s].Asks
         IN OwnRemaining(Flatten(ladder), books[s].Orders, symbol, price)
            + OwnQuantity(ss \ {s}, symbol, side, price)

\* The snapshot thread t's GetOrderBook returns shows, at each price, the
\* quantity queued by orders submitted with the symbol of the call.
SnapshotOwnOrders(t) ==
    /\ \A i \in 1..Len(res'[t].Bids) :
          res'[t].Bids[i].Quantity =
              OwnQuantity(DOMAIN books, call[t].symbol, BUY, res'[t].Bids[i].Price)
    /\ \A i \in 1..Len(res'[t].Asks) :
          res'[t].Asks[i].Quantity =
              OwnQuantity(DOMAIN books, call[t].symbol, SELL, res'[t].Asks[i].Price)

\* C20: cross-symbol isolation.  A step of SubmitOrder, CancelOrder or
\* GetOrderBook for one symbol changes no ladder, id index or order record of
\* the book of another symbol; the buyer and the seller of a trade were
\* submitted with the same symbol; a snapshot shows only quantity of orders
\* submitted with its symbol.
C20_CrossSymbolIsolation ==
    [][\A t \in Threads :
          /\ Stepped(t) => OtherBooksKept(t)
          /\ MatchStep(t) => TradesWithinSymbol(t)
          /\ (pc[t] = "snapshot" /\ pc'[t] = "idle") => SnapshotOwnOrders(t)]_vars

\* A submission for one symbol has returned a trade while an order rests in
\* the book of another symbol.
C20_Witness ==
    \E t \in Threads : \E B \in DOMAIN books :
        /\ pc[t] = "idle" /\ res[t].op = "submit" /\ res[t].err = ""
        /\ Len(res[t].Trades) > 0
        /\ B # res[t].order.Symbol
        /\ Len(books[B].Bids) + Len(books[B].Asks) > 0

\* Thread t takes the step that runs book.AddOrder.
AddStep(t) == pc[t] = "add" /\ pc'[t] = "result"

\* The ladder of a book on a side, and on the other side.
OwnLadder(book, side) == IF side = BUY THEN book.Bids ELSE book.Asks
OtherLadder(book, side) == IF side = BUY THEN book.Asks ELSE book.Bids

\* C21: a non-crossing LIMIT is a no-op on the other side.  The match of a
\* LIMIT BUY priced below the best ask (a LIMIT SELL above the best bid, any
\* LIMIT against an empty opposing ladder) makes no trade and changes no book;
\* the AddOrder that follows leaves the opposing ladder and every resting
\* order's record as they were and puts that one order at the tail of the
\* level of its price on its own side.
NonCrossingMatch(t) ==
    /\ TradesOf(t) = << >>
    /\ books' = books
    /\ pc'[t] = "add"
    /\ loc'[t].order = Incoming(t)

NonCrossingAdd(t) ==
    LET s == loc[t].book
        o == loc[t].order
        own == OwnLadder(books'[s], o.Side)
        l == FindLevel(own, o.Price)
    IN /\ OtherLadder(books'[s], o.Side) = OtherLadder(books[s], o.Side)
       /\ \A id \in DOMAIN books[s].Orders :
             books'[s].Orders[id] = books[s].Orders[id]
       /\ LadderWithout(own, o.ID) = OwnLadder(books[s], o.Side)
       /\ Len(Flatten(own)) = Len(Flatten(OwnLadder(books[s], o.Side))) + 1
       /\ l # 0
       /\ own[l].Orders[Len(own[l].Orders)] = o.ID

C21_NonCrossingLimitNoOp ==
    [][\A t \in Threads :
          LET cannotCross ==
                 /\ loc[t].order.Type = LIMIT
                 /\ NonCrossing(books[loc[t].book], loc[t].order.Side,
                                loc[t].order.Price)
          IN /\ (MatchStep(t) /\ cannotCross) => NonCrossingMatch(t)
             /\ (AddStep(t) /\ cannotCross) => NonCrossingAdd(t)]_vars

\* A LIMIT BUY below the best ask has joined the tail of a level that held
\* an order already.
C21_Witness ==
    \E t \in Threads :
        /\ pc[t] = "idle" /\ res[t].op = "submit" /\ res[t].err = ""
        /\ res[t].Status = ACCEPTED /\ res[t].order.Side = BUY
        /\ LET book == books[res[t].order.Symbol]
               l == FindLevel(book.Bids, res[t].order.Price)
           IN /\ Len(book.Asks) > 0
              /\ res[t].order.Price < book.Asks[1].Price
              /\ l # 0
              /\ Len(book.Bids[l].Orders) >= 2
              /\ book.Bids[l].Orders[Len(book.Bids[l].Orders)] = res[t].order.ID

\* Thread t takes the step on which its GetOrderBook call returns.
SnapshotStep(t) == pc[t] = "snapshot" /\ pc'[t] = "idle"

\* One side of a snapshot: at most `depth` levels, which are the best levels
\* of the ladder in the ladder's order, each with the positive sum of
\* quantity - filled over the orders that rest at its price.
SnapshotSide(shown, ladder, ords, symbol, depth) ==
    /\ Len(shown) <= depth
    /\ Len(shown) <= Len(ladder)
    /\ Len(shown) = depth \/ Len(shown) = Len(ladder)
    /\ \A i \in 1..Len(shown) :
          /\ shown[i].Price = ladder[i].Price
          /\ shown[i].Quantity > 0
          /\ shown[i].Quantity =
                OwnRemaining(Flatten(ladder), ords, symbol, shown[i].Price)

\* C22: snapshot content.  GetOrderBook(symbol, D) returns at most D levels
\* per side, from the best price outward, bids in strictly descending and
\* asks in strictly ascending price; a level's quantity is the positive sum of
\* quantity - filled over the orders resting at its price; the call changes
\* no ladder and no order record.
SnapshotContent(t) ==
    LET book == books[loc[t].book] IN
    /\ SnapshotSide(res'[t].Bids, book.Bids, book.Orders, call[t].symbol, call[t].depth)
    /\ SnapshotSide(res'[t].Asks, book.Asks, book.Orders, call[t].symbol, call[t].depth)
    /\ \A i \in 2..Len(res'[t].Bids) : res'[t].Bids[i - 1].Price > res'[t].Bids[i].Price
    /\ \A i \in 2..Len(res'[t].Asks) : res'[t].Asks[i - 1].Price < res'[t].Asks[i].Price
    /\ books' = books

C22_SnapshotContent ==
    [][\A t \in Threads :
          /\ SnapshotStep(t) => SnapshotContent(t)
          /\ (pc[t] = "idle" /\ call'[t].op = "getbook") =>
                \A s \in DOMAIN books : books'[s] = books[s]]_vars

\* A snapshot has returned one bid level of a ladder of two, with the
\* quantity that remains of a partially filled order.
C22_Witness ==
    \E t \in Threads : \E s \in DOMAIN books :
        /\ pc[t] = "idle" /\ res[t].op = "getbook"
        /\ Len(res[t].Bids) = 1 /\ Len(books[s].Bids) = 2
        /\ books[s].Orders[books[s].Bids[1].Orders[1]].FilledQuantity > 0
        /\ res[t].Bids[1].Quantity <
              books[s].Orders[books[s].Bids[1].Orders[1]].Quantity

\* C23: trade counterparties.  In every trade of a match, the buyer id is
\* the id of an order whose side is BUY and the seller id the id of an order
\* whose side is SELL; one of the two is the incoming order, and the other
\* was in the opposing ladder of the incoming order's book, with quantity
\* remaining, immediately before the trade.
SideOf(t, id) ==
    IF id = Incoming(t).ID THEN Incoming(t).Side
    ELSE books[loc[t].book].Orders[id].Side

Counterparties(t) ==
    LET ords == books[loc[t].book].Orders IN
    \A k \in 1..Len(TradesOf(t)) :
        LET trade == TradesOf(t)[k]
            other == IF trade.BuyerID = Incoming(t).ID THEN trade.SellerID
                     ELSE trade.BuyerID
        IN /\ Incoming(t).ID \in {trade.BuyerID, trade.SellerID}
           /\ other # Incoming(t).ID
           /\ other \in IdsOf(OpposingBefore(t))
           /\ ords[other].Quantity - ords[other].FilledQuantity
                 - TradedBeforeWith(t, k, other) > 0
           /\ SideOf(t, trade.BuyerID) = BUY
           /\ SideOf(t, trade.SellerID) = SELL

C23_TradeCounterparties ==
    [][\A t \in Threads : MatchStep(t) => Counterparties(t)]_vars

\* An incoming SELL order has traded with two resting BUY orders.
C23_Witness ==
    \E t \in Threads :
        /\ pc[t] = "idle" /\ res[t].op = "submit" /\ res[t].err = ""
        /\ res[t].order.Side = SELL /\ Len(res[t].Trades) = 2
        /\ res[t].Trades[1].SellerID = res[t].order.ID
        /\ res[t].Trades[1].BuyerID # res[t].Trades[2].BuyerID

\* C25: ladder ordering.  In every reachable state, under every interleaving
\* of concurrent calls, a bid ladder is strictly decreasing in price, an ask
\* ladder strictly increasing (no two levels of a side share a price), and
\* every level of a ladder holds at least one order.
LadderOrdered(book) ==
    /\ \A i \in 2..Len(book.Bids) : book.Bids[i - 1].Price > book.Bids[i].Price
    /\ \A i \in 2..Len(book.Asks) : book.Asks[i - 1].Price < book.Asks[i].Price
    /\ \A i \in 1..Len(book.Bids) : Len(book.Bids[i].Orders) >= 1
    /\ \A i \in 1..Len(book.Asks) : Len(book.Asks[i].Orders) >= 1

C25_LadderOrdering == \A s \in DOMAIN books : LadderOrdered(books[s])

\* Two concurrent submissions have built a bid ladder of two levels, the
\* lower price added first.
C25_Witness ==
    \E s \in DOMAIN books :
        /\ Len(books[s].Bids) = 2
        /\ books[s].Bids[1].Orders[1] > books[s].Bids[2].Orders[1]
        /\ \A t \in Threads : res[t].op = "submit"

\* The ids queued in the ladders of a book.
Queued(book) == IdsOf(book.Bids) \cup IdsOf(book.Asks)

\* A thread is about to read a book under the book's shared lock.
ReaderAtBook == \E t \in Threads : pc[t] \in {"scan", "snapshot"}

\* C26: resting-order invariant.  Under every interleaving of concurrent
\* SubmitOrder and CancelOrder calls, in every state a reader of a book can
\* observe under the book's shared lock, every order queued in a price level
\* has 0 <= filled < quantity and status ACCEPTED or PARTIAL_FILL.
C26_RestingOrdersLive ==
    ReaderAtBook =>
        \A s \in DOMAIN books : \A id \in Queued(books[s]) :
            LET o == books[s].Orders[id] IN
            /\ 0 <= o.FilledQuantity
            /\ o.FilledQuantity < o.Quantity
            /\ o.Status \in {ACCEPTED, PARTIAL_FILL}

\* C27: ladder/index consistency.  In every reachable state, under every
\* interleaving of concurrent calls, every order in a ladder is registered in
\* its book's id index, is queued exactly once, in the ladder of its own side,
\* in the level whose price is its limit price (also when it has been
\* partially filled), and is a LIMIT order.
LadderIndexed(book, side) ==
    LET ladder == OwnLadder(book, side) IN
    \A l \in 1..Len(ladder) : \A i \in 1..Len(ladder[l].Orders) :
        LET id == ladder[l].Orders[i] IN
        /\ id \in DOMAIN book.Orders
        /\ book.Orders[id].ID = id
        /\ book.Orders[id].Side = side
        /\ book.Orders[id].Price = ladder[l].Price
        /\ book.Orders[id].Type = LIMIT

C27_LadderIndexConsistency ==
    \A s \in DOMAIN books :
        /\ LadderIndexed(books[s], BUY)
        /\ LadderIndexed(books[s], SELL)
        /\ Cardinality(Queued(books[s])) =
              Len(Flatten(books[s].Bids)) + Len(Flatten(books[s].Asks))

\* An order that traded below its limit on arrival rests, partially filled,
\* in the level of its limit price.
C27_Witness ==
    \E s \in DOMAIN books : \E id \in IdsOf(books[s].Bids) : \E t \in Threads :
        /\ books[s].Orders[id].FilledQuantity > 0
        /\ pc[t] = "idle" /\ res[t].op = "submit" /\ res[t].OrderID = id
        /\ Len(res[t].Trades) > 0
        /\ res[t].Trades[1].Price < books[s].Bids[1].Price

\* C28: arrival sequence agrees with queue order.  Under every interleaving
\* of concurrent SubmitOrder calls, the orders of every price level are queued
\* in non-decreasing order of Order.Timestamp, so that the head of a level,
\* which a match consumes first, has the least arrival sequence of its level.
C28_QueueInArrivalOrder ==
    \A s \in DOMAIN books : \A side \in OrderSide :
        LET ladder == OwnLadder(books[s], side) IN
        \A l \in 1..Len(ladder) : \A i, j \in 1..Len(ladder[l].Orders) :
            i < j => books[s].Orders[ladder[l].Orders[i]].Timestamp
                        <= books[s].Orders[ladder[l].Orders[j]].Timestamp

\* C30: terminal statuses are final.  Under every interleaving of concurrent
\* calls, no step changes the status of a record that is FILLED, or the status
\* of a record that is CANCELLED, or raises the filled quantity of a CANCELLED
\* record; no step lowers a filled quantity, and 0 <= filled <= quantity.
C30_TerminalStatusFinal ==
    [][\A s \in DOMAIN books : \A id \in DOMAIN books[s].Orders :
          LET before == books[s].Orders[id]
              after == books'[s].Orders[id]
          IN /\ before.Status = FILLED => after.Status = FILLED
             /\ before.Status = CANCELLED =>
                   /\ after.Status = CANCELLED
                   /\ after.FilledQuantity <= before.FilledQuantity
             /\ after.FilledQuantity >= before.FilledQuantity
             /\ 0 <= after.FilledQuantity
             /\ after.FilledQuantity <= after.Quantity]_vars

\* Thread t holds a book's lock, shared or exclusive.
HoldsBook(t) ==
    \E s \in Symbols : t \in mu.book[s].w \cup mu.book[s].a \cup mu.book[s].r

\* Thread t is taking, waits for, or holds exclusively the registry lock.
AtRegistry(t) ==
    \/ pc[t] \in RegistrySections
    \/ t \in mu.me.q \cup mu.me.a \cup mu.me.w \cup mu.me.rq

\* C24: deadlock freedom.  Under every interleaving of concurrent SubmitOrder,
\* CancelOrder, GetOrder and GetOrderBook calls, with a waiting writer keeping
\* new readers out, a thread that takes or waits for the registry lock holds
\* no book lock (the registry lock comes first), and under fair scheduling
\* every call that has started returns.
LockOrder == \A t \in Threads : AtRegistry(t) => ~HoldsBook(t)

C24_DeadlockFreedom ==
    /\ []LockOrder
    /\ \A t \in Threads : (pc[t] # "idle") ~> (pc[t] = "idle")

\* CancelOrder holds the registry's read lock and waits for the book's
\* exclusive lock while a writer waits for the registry.
C24_Witness ==
    \E t, u \in Threads :
        /\ pc[t] = "remove" /\ Phase(t) = "called" /\ t \in mu.me.r
        /\ u \in mu.me.a

\* Thread t takes a step that writes the status or filled quantity of an
\* order of a book: the body of a match, or CancelOrder's status write.
WritesRecord(t) ==
    \/ pc[t] = "match" /\ pc'[t] # "match"
    \/ pc[t] = "can_write" /\ pc'[t] # "can_write"

\* Thread t takes the step that checks the status CancelOrder then writes.
ChecksRecord(t) == pc[t] = "can_read" /\ pc'[t] # "can_read"

\* C29: lock discipline for order records.  A thread that writes the status or
\* filled quantity of an order of a book holds that book's exclusive lock, and
\* it holds the lock from the check of a status to the write that follows it.
C29_RecordLockDiscipline ==
    [][\A t \in Threads :
          (WritesRecord(t) \/ ChecksRecord(t)) => t \in mu.book[loc[t].book].w]_vars


\* A result SubmitOrder returned without error, and whether its order rests:
\* SubmitOrder reports ACCEPTED or PARTIAL_FILL for the orders it adds to
\* the book and no others.
Submitted(t) == pc[t] = "idle" /\ res[t].op = "submit" /\ res[t].err = ""

RestsBy(r) == r.Status \in {ACCEPTED, PARTIAL_FILL}

FilledIsTraded(r) == r.FilledQuantity = SumQuantity(r.Trades)

RemainingIsUnfilled(r) ==
    RestsBy(r) => r.FilledQuantity + r.RemainingQuantity = r.order.Quantity

AcceptedUntraded(r) ==
    r.Status = ACCEPTED => (r.Trades = << >> /\ r.FilledQuantity = 0)

PartialTraded(r) == r.Status = PARTIAL_FILL => Len(r.Trades) >= 1

\* C31: result self-consistency under concurrency.  In every interleaving of
\* concurrent calls, each result SubmitOrder returns has filled_quantity equal
\* to the summed quantity of its trades, filled_quantity + remaining_quantity
\* equal to the order's quantity when the order rests, no trade and
\* filled_quantity 0 when its status is ACCEPTED, and at least one trade when
\* its status is PARTIAL_FILL.
C31_ResultSelfConsistent ==
    \A t \in Threads :
        Submitted(t) =>
            /\ FilledIsTraded(res[t])
            /\ RemainingIsUnfilled(res[t])
            /\ AcceptedUntraded(res[t])
            /\ PartialTraded(res[t])

=============================================================================
